---- MODULE Spec2Model ----
(***************************************************************************)
(* Signing and verification of NFTS record units (Prefeitura de Sao Paulo). *)
(* Two scripts are modelled side by side:                                  *)
(*   "NC"  src/python/sign_xml_soap_nfts_novos_campos.py                   *)
(*   "CD"  src/python/sign_xml_soap_nfts_corrigido_com_debug.py            *)
(*                                                                         *)
(* A text is a sequence of characters, each character a one-letter string  *)
(* (NBSP and SUP2 name the characters U+00A0 and U+00B2).  The empty       *)
(* sequence stands for lxml's text None: a parsed element never has the    *)
(* empty string as text.  No input text spells a numeral with an exponent  *)
(* or an underscore, so that Python's float() accepts, among the input     *)
(* texts, exactly the plain decimal numerals and inf, infinity and nan.    *)
(***************************************************************************)
EXTENDS Integers, Sequences, FiniteSets

VARIABLES
    variant,      \* which script runs: "NC" or "CD"
    mode,         \* "sign" (sign_file), "verify" (verify_signed_nfts),
                  \* "canon" (build_tpNFTS_bytes alone) or "call" (one
                  \* normalization function alone)
    pc,           \* position of the running function
    root,         \* the parsed document: the sequence of its NFTS units
    input,        \* the document as it was parsed (history)
    i,            \* loop index over nfts_nodes (1-based)
    keyOk,        \* whether the PFX yields a private key and a certificate
    xmlsecAvail,  \* XMLSEC_AVAILABLE
    xmlsecFails,  \* whether xmlsec raises while signing the whole document
    writeOk,      \* whether the output file can be written
    docSigned,    \* whether the whole-document signature was added to root
    signedBytes,  \* per unit, the canonical bytes that were signed (history)
    pems,         \* the temporary PEM files that exist on disk
    output,       \* the SOAP envelope file: <<>> or <<root>> once written
    outcome,      \* "running", "ok" (returned normally), "error" (raised)
    pubkey,       \* the key of the certificate used by verify_signed_nfts
    report,       \* per verified unit, what verify_signed_nfts logged
    canon,        \* canonical tree of the unit under test (mode "canon")
    cbytes,       \* canonical bytes of the unit under test
    reparsed,     \* the tree parsed back from cbytes
    cbytes2,      \* canonical bytes of reparsed
    callFn,       \* the normalization function called (mode "call")
    callArg,      \* its argument text: <<>> for None, <<t>> for the str t
    callFlag,     \* its argument format_decimals
    callRet       \* <<>> until it returns, then <<r>> for the str r

vars == <<variant, mode, pc, root, input, i, keyOk, xmlsecAvail, xmlsecFails,
          writeOk, docSigned, signedBytes, pems, output, outcome, pubkey, report,
          canon, cbytes, reparsed, cbytes2, callFn, callArg, callFlag, callRet>>

(***************************************************************************)
(* Characters and Python's str methods                                     *)
(***************************************************************************)
NBSP == "NBSP"
SUP2 == "SUP2"

DecDigits == {"0", "1", "2", "3", "4", "5", "6", "7", "8", "9"}

\* str.isspace(): the characters str.strip() and str.split() remove
WhiteSpace == {" ", "\t", "\n", NBSP}

\* text.replace('\xa0', ' ')
replace_nbsp(t) == [k \in 1..Len(t) |-> IF t[k] = NBSP THEN " " ELSE t[k]]

\* text.replace(',', '.')
replace_comma(t) == [k \in 1..Len(t) |-> IF t[k] = "," THEN "." ELSE t[k]]

RECURSIVE lstrip(_)
lstrip(t) ==
    IF t # <<>> /\ Head(t) \in WhiteSpace THEN lstrip(Tail(t)) ELSE t

RECURSIVE rstrip(_)
rstrip(t) ==
    IF t # <<>> /\ t[Len(t)] \in WhiteSpace
    THEN rstrip(SubSeq(t, 1, Len(t) - 1))
    ELSE t

\* str.strip()
strip(t) == rstrip(lstrip(t))

\* "".join(text.split()): every whitespace character removed
remove_whitespace(t) == SelectSeq(t, LAMBDA c : c \notin WhiteSpace)

UpperCase ==
    << "A", "B", "C", "D", "E", "F", "G", "H", "I", "J", "K", "L", "M",
       "N", "O", "P", "Q", "R", "S", "T", "U", "V", "W", "X", "Y", "Z" >>

LowerCase ==
    << "a", "b", "c", "d", "e", "f", "g", "h", "i", "j", "k", "l", "m",
       "n", "o", "p", "q", "r", "s", "t", "u", "v", "w", "x", "y", "z" >>

LowerChar(c) ==
    IF \E k \in 1..26 : UpperCase[k] = c
    THEN LowerCase[CHOOSE k \in 1..26 : UpperCase[k] = c]
    ELSE c

\* str.lower()
lower(t) == [k \in 1..Len(t) |-> LowerChar(t[k])]

\* str.isdigit(): true of SUP2 too, which int() rejects
isdigit(t) == t # <<>> /\ \A k \in 1..Len(t) : t[k] \in DecDigits \cup {SUP2}

RECURSIVE strip_leading_zeros(_)
strip_leading_zeros(t) ==
    IF Len(t) > 1 /\ Head(t) = "0" THEN strip_leading_zeros(Tail(t)) ELSE t

RECURSIVE strip_trailing_zeros(_)
strip_trailing_zeros(t) ==
    IF t # <<>> /\ t[Len(t)] = "0"
    THEN strip_trailing_zeros(SubSeq(t, 1, Len(t) - 1))
    ELSE t

\* int(text) raises ValueError unless every character is a decimal digit
int_parses(t) == t # <<>> /\ \A k \in 1..Len(t) : t[k] \in DecDigits

\* str(int(text))
str_int(t) == strip_leading_zeros(t)

(***************************************************************************)
(* Python's float(), "{:.2f}".format() and str(float)                      *)
(***************************************************************************)
DigitSeq == <<"0", "1", "2", "3", "4", "5", "6", "7", "8", "9">>

DigitChar(n) == DigitSeq[n + 1]

DigitVal(c) == CHOOSE n \in 0..9 : DigitSeq[n + 1] = c

HasSign(t) == t # <<>> /\ Head(t) \in {"+", "-"}

Unsigned(t) == IF HasSign(t) THEN Tail(t) ELSE t

DotAt(t) ==
    IF \E k \in 1..Len(t) : t[k] = "."
    THEN CHOOSE k \in 1..Len(t) : t[k] = "." /\ \A j \in 1..(k - 1) : t[j] # "."
    ELSE Len(t) + 1

\* digits before and after the decimal point of an unsigned numeral
IntPart(t) == SubSeq(Unsigned(t), 1, DotAt(Unsigned(t)) - 1)

FracPart(t) == SubSeq(Unsigned(t), DotAt(Unsigned(t)) + 1, Len(Unsigned(t)))

\* the spellings of the infinities and of not-a-number float() accepts,
\* in any case and after a sign
SpecialFloats ==
    { <<"i", "n", "f">>, <<"i", "n", "f", "i", "n", "i", "t", "y">>,
      <<"n", "a", "n">> }

is_special(t) == lower(Unsigned(t)) \in SpecialFloats

\* repr of float(text) for such a spelling, which "{:.2f}".format() and
\* str() both give: inf, -inf or nan
special_repr(t) ==
    IF lower(Unsigned(t)) = <<"n", "a", "n">> THEN <<"n", "a", "n">>
    ELSE (IF t # <<>> /\ Head(t) = "-" THEN <<"-">> ELSE <<>>) \o <<"i", "n", "f">>

\* float(text) returns (does not raise ValueError): [sign] digits [. digits]
\* or [sign] . digits, over the alphabet of the texts, or a special spelling
float_parses(t) ==
    LET u == Unsigned(t) IN
    \/ is_special(t)
    \/ /\ u # <<>>
       /\ \A k \in 1..Len(u) : u[k] \in DecDigits \cup {"."}
       /\ Cardinality({k \in 1..Len(u) : u[k] = "."}) <= 1
       /\ \E k \in 1..Len(u) : u[k] \in DecDigits

IsNegative(t) == t # <<>> /\ Head(t) = "-"

AllZero(t) == \A k \in 1..Len(t) : t[k] = "0"

\* The digits of a numeral decide how its double rounds to two places unless
\* the third fractional digit starts an exact tie (x.xx5000...), and a
\* double holds 15 significant decimal digits exactly.
float_exact(t) ==
    /\ Len(IntPart(t)) + Len(FracPart(t)) <= 15
    /\ ~ ( /\ Len(FracPart(t)) > 2
           /\ FracPart(t)[3] = "5"
           /\ AllZero(SubSeq(FracPart(t), 4, Len(FracPart(t)))) )

\* digits + 1, as a digit sequence
RECURSIVE incr(_)
incr(d) ==
    IF d = <<>> THEN <<"1">>
    ELSE IF d[Len(d)] = "9"
         THEN incr(SubSeq(d, 1, Len(d) - 1)) \o <<"0">>
         ELSE SubSeq(d, 1, Len(d) - 1) \o <<DigitChar(DigitVal(d[Len(d)]) + 1)>>

\* "{:,.2f}".format(float(text)): format_2f with a thousands separator
format_2f_grouped(t) ==
    LET ip    == strip_leading_zeros(IF IntPart(t) = <<>> THEN <<"0">> ELSE IntPart(t))
        fp    == FracPart(t)
        frac2 == SubSeq(fp \o <<"0", "0">>, 1, 2)
        up    == Len(fp) > 2 /\ fp[3] \in {"5", "6", "7", "8", "9"}
        hund  == IF up THEN incr(ip \o frac2) ELSE ip \o frac2
        int   == SubSeq(hund, 1, Len(hund) - 2)
        grp   == [k \in 1..Len(int) |->
                    IF k > 1 /\ (Len(int) - k + 1) % 3 = 0
                    THEN <<",", int[k]>> ELSE <<int[k]>>]
        flat[k \in 0..Len(int)] == IF k = 0 THEN <<>> ELSE flat[k - 1] \o grp[k]
    IN  (IF IsNegative(t) THEN <<"-">> ELSE <<>>)
          \o flat[Len(int)] \o <<".">> \o SubSeq(hund, Len(hund) - 1, Len(hund))

\* "{:.2f}".format(float(text)) for a text float() accepts
format_2f(t) ==
    LET ip    == strip_leading_zeros(IF IntPart(t) = <<>> THEN <<"0">> ELSE IntPart(t))
        fp    == FracPart(t)
        frac2 == SubSeq(fp \o <<"0", "0">>, 1, 2)
        up    == Len(fp) > 2 /\ fp[3] \in {"5", "6", "7", "8", "9"}
        hund  == IF up THEN incr(ip \o frac2) ELSE ip \o frac2
        body  == SubSeq(hund, 1, Len(hund) - 2) \o <<".">>
                   \o SubSeq(hund, Len(hund) - 1, Len(hund))
    IN  (IF IsNegative(t) THEN <<"-">> ELSE <<>>) \o body

RECURSIVE leading_zeros(_)
leading_zeros(d) ==
    IF d # <<>> /\ Head(d) = "0" THEN 1 + leading_zeros(Tail(d)) ELSE 0

\* str(float(text)) for a text float() accepts: the shortest repr, in
\* exponent notation below 1e-4
str_float(t) ==
    LET ip   == strip_leading_zeros(IF IntPart(t) = <<>> THEN <<"0">> ELSE IntPart(t))
        fp   == strip_trailing_zeros(FracPart(t))
        z    == leading_zeros(fp)
        sig  == SubSeq(fp, z + 1, Len(fp))
        ex   == z + 1
        body == IF ip = <<"0">> /\ fp # <<>> /\ z >= 4
                THEN <<Head(sig)>>
                       \o (IF Len(sig) > 1 THEN <<".">> \o Tail(sig) ELSE <<>>)
                       \o <<"e", "-", DigitChar(ex \div 10), DigitChar(ex % 10)>>
                ELSE ip \o <<".">> \o (IF fp = <<>> THEN <<"0">> ELSE fp)
    IN  (IF IsNegative(t) THEN <<"-">> ELSE <<>>) \o body

(***************************************************************************)
(* Normalizations                                                          *)
(***************************************************************************)
\* text.replace('\xa0', ' ').strip()
clean(t) == strip(replace_nbsp(t))

\* normalize_numeric_string, altered: the digits are not reparsed
normalize_numeric_string_verbatim(t) == clean(t)

normalize_numeric_string(t) ==
    LET clean_text == clean(t) IN
    IF isdigit(clean_text) /\ int_parses(clean_text)
    THEN str_int(clean_text)
    ELSE clean_text

SerieWidth == 5

FiveSpaces == <<" ", " ", " ", " ", " ">>

normalize_serie_nfts_NC(t) == clean(t)

normalize_serie_nfts_CD(t) == SubSeq(clean(t) \o FiveSpaces, 1, SerieWidth)

normalize_serie_nfts(v, t) ==
    IF v = "CD" THEN normalize_serie_nfts_CD(t) ELSE normalize_serie_nfts_NC(t)

normalize_float_value(t, format_decimals) ==
    LET clean_text == strip(replace_comma(replace_nbsp(t))) IN
    IF is_special(clean_text) THEN special_repr(clean_text)
    ELSE IF float_parses(clean_text)
    THEN IF format_decimals THEN format_2f(clean_text) ELSE str_float(clean_text)
    ELSE clean_text

TrueWords ==
    { <<"t", "r", "u", "e">>, <<"1">>, <<"s">>, <<"s", "i", "m">>, <<"t">>,
      <<"y">>, <<"y", "e", "s">> }

\* normalize_boolean_value, altered: the empty text stays empty
normalize_boolean_value_keep_empty(t) ==
    LET clean_text == lower(clean(t)) IN
    IF clean_text \in TrueWords THEN <<"t", "r", "u", "e">>
    ELSE IF clean_text = <<>> THEN <<>>
    ELSE <<"f", "a", "l", "s", "e">>

normalize_boolean_value(t) ==
    LET clean_text == lower(clean(t)) IN
    IF clean_text \in TrueWords THEN <<"t", "r", "u", "e">>
    ELSE <<"f", "a", "l", "s", "e">>

\* the dispatch on the field definition inside build_fragment
normalize_field(v, kind, text_value) ==
    CASE kind = "num_str"        -> normalize_numeric_string(text_value)
      [] kind = "float_currency" -> normalize_float_value(text_value, TRUE)
      [] kind = "float"          -> normalize_float_value(text_value, FALSE)
      [] kind = "bool"           -> normalize_boolean_value(text_value)
      [] kind = "serie"          -> normalize_serie_nfts(v, text_value)
      [] OTHER                   -> clean(text_value)

(***************************************************************************)
(* Element trees (lxml) and the schema descriptor                          *)
(***************************************************************************)
NS_SP == "http://www.prefeitura.sp.gov.br/nfts"

\* an etree element: local name, namespace URI ("" for none), text, children
El(tag, ns, text, kids) == [tag |-> tag, ns |-> ns, text |-> text, kids |-> kids]

\* etree.Element(tag) with text and children set
Leaf(tag, text) == El(tag, "", text, <<>>)

Group(tag, kids) == El(tag, "", <<>>, kids)

\* el.tag: the qualified name "{uri}local"
QName(e) == IF e.ns = "" THEN e.tag ELSE "{" \o e.ns \o "}" \o e.tag

\* parent.xpath('./*[local-name() = $name]')
xpath_local_name(parent, tagname) ==
    SelectSeq(parent.kids, LAMBDA e : e.tag = tagname)

\* find_child returns nodes[0] if nodes else None: the sequence of at most
\* one element
find_child(parent, tagname) ==
    LET nodes == xpath_local_name(parent, tagname) IN
    IF nodes # <<>> THEN <<nodes[1]>> ELSE <<>>

\* entries of canonical_order_map
F(name, kind) == [name |-> name, kind |-> kind, sub |-> <<>>]

G(name, sub) == [name |-> name, kind |-> "group", sub |-> sub]

canonical_order_map_CD ==
    << F("TipoDocumento", "str"),
       G("ChaveDocumento", << F("InscricaoMunicipal", "str"),
                              F("SerieNFTS", "serie"),
                              F("NumeroDocumento", "num_str") >>),
       F("DataPrestacao", "str"),
       F("StatusNFTS", "str"),
       F("TributacaoNFTS", "str"),
       F("ValorServicos", "float_currency"),
       F("ValorDeducoes", "float_currency"),
       F("CodigoServico", "num_str"),
       F("CodigoSubItem", "num_str"),
       F("AliquotaServicos", "float"),
       F("ISSRetidoTomador", "bool"),
       F("ISSRetidoIntermediario", "bool"),
       G("Prestador", << G("CPFCNPJ", << F("CNPJ", "str"), F("CPF", "str") >>),
                         F("InscricaoMunicipal", "str"),
                         F("RazaoSocialPrestador", "str"),
                         G("Endereco", << F("TipoLogradouro", "str"),
                                          F("Logradouro", "str"),
                                          F("NumeroEndereco", "str"),
                                          F("ComplementoEndereco", "str_opt"),
                                          F("Bairro", "str"),
                                          F("Cidade", "num_str"),
                                          F("UF", "str"),
                                          F("CEP", "str") >>),
                         F("Email", "str_opt") >>),
       F("RegimeTributacao", "num_str"),
       F("DataPagamento", "str_opt"),
       F("Discriminacao", "str"),
       F("TipoNFTS", "num_str"),
       G("Tomador", << G("CPFCNPJ", << F("CPF", "str"), F("CNPJ", "str") >>),
                       F("RazaoSocial", "str") >>) >>

\* canonical_order_map of NC with line 159 (ExigibilidadeSuspensa) active
canonical_order_map_NC_with_exigibilidade ==
    << F("TipoDocumento", "str"),
       G("ChaveDocumento", << F("InscricaoMunicipal", "str"),
                              F("SerieNFTS", "serie"),
                              F("NumeroDocumento", "str") >>),
       F("DataPrestacao", "str"),
       F("StatusNFTS", "str"),
       F("TributacaoNFTS", "str"),
       F("ValorServicos", "float_currency"),
       F("ValorDeducoes", "float_currency"),
       F("CodigoServico", "num_str"),
       F("CodigoSubItem", "num_str"),
       F("AliquotaServicos", "float"),
       F("ISSRetidoTomador", "bool"),
       F("ISSRetidoIntermediario", "bool"),
       G("Prestador", << G("CPFCNPJ", << F("CNPJ", "str"), F("CPF", "str") >>),
                         F("InscricaoMunicipal", "str"),
                         F("RazaoSocialPrestador", "str"),
                         G("Endereco", << F("TipoLogradouro", "str"),
                                          F("Logradouro", "str"),
                                          F("NumeroEndereco", "str"),
                                          F("ComplementoEndereco", "str"),
                                          F("Bairro", "str"),
                                          F("Cidade", "num_str"),
                                          F("UF", "str"),
                                          F("CEP", "num_str") >>),
                         F("Email", "str") >>),
       F("RegimeTributacao", "num_str"),
       F("DataPagamento", "str"),
       F("Discriminacao", "str"),
       F("TipoNFTS", "num_str"),
       G("Tomador", << G("CPFCNPJ", << F("CPF", "str"), F("CNPJ", "str") >>),
                       F("RazaoSocial", "str") >>),
       F("ExigibilidadeSuspensa", "str") >>

canonical_order_map_NC ==
    << F("TipoDocumento", "str"),
       G("ChaveDocumento", << F("InscricaoMunicipal", "str"),
                              F("SerieNFTS", "serie"),
                              F("NumeroDocumento", "str") >>),
       F("DataPrestacao", "str"),
       F("StatusNFTS", "str"),
       F("TributacaoNFTS", "str"),
       F("ValorServicos", "float_currency"),
       F("ValorDeducoes", "float_currency"),
       F("CodigoServico", "num_str"),
       F("CodigoSubItem", "num_str"),
       F("AliquotaServicos", "float"),
       F("ISSRetidoTomador", "bool"),
       F("ISSRetidoIntermediario", "bool"),
       G("Prestador", << G("CPFCNPJ", << F("CNPJ", "str"), F("CPF", "str") >>),
                         F("InscricaoMunicipal", "str"),
                         F("RazaoSocialPrestador", "str"),
                         G("Endereco", << F("TipoLogradouro", "str"),
                                          F("Logradouro", "str"),
                                          F("NumeroEndereco", "str"),
                                          F("ComplementoEndereco", "str"),
                                          F("Bairro", "str"),
                                          F("Cidade", "num_str"),
                                          F("UF", "str"),
                                          F("CEP", "num_str") >>),
                         F("Email", "str") >>),
       F("RegimeTributacao", "num_str"),
       F("DataPagamento", "str"),
       F("Discriminacao", "str"),
       F("TipoNFTS", "num_str"),
       G("Tomador", << G("CPFCNPJ", << F("CPF", "str"), F("CNPJ", "str") >>),
                       F("RazaoSocial", "str") >>) >>

canonical_order_map(v) ==
    IF v = "CD" THEN canonical_order_map_CD ELSE canonical_order_map_NC

NFTS_ELEMENT_ORDER ==
    << "TipoDocumento", "ChaveDocumento", "DataPrestacao", "StatusNFTS",
       "TributacaoNFTS", "ValorServicos", "ValorDeducoes", "CodigoServico",
       "CodigoSubItem", "AliquotaServicos", "ISSRetidoTomador",
       "ISSRetidoIntermediario", "Prestador", "RegimeTributacao",
       "DataPagamento", "Discriminacao", "TipoNFTS", "Tomador", "Assinatura",
       "ExigibilidadeSuspensa", "PagamentoParceladoAntecipado" >>

(***************************************************************************)
(* The canonical builder                                                   *)
(***************************************************************************)
\* build_fragment as it would be without "if nested:" (an empty group is
\* emitted)
RECURSIVE build_fragment_keep_empty_group(_, _, _)
build_fragment_keep_empty_group(v, node, order_map) ==
    IF order_map = <<>> THEN <<>>
    ELSE
      LET definition     == Head(order_map)
          tag_name       == definition.name
          rest           == build_fragment_keep_empty_group(v, node, Tail(order_map))
          original_child == find_child(node, tag_name)
      IN  IF original_child = <<>> THEN rest
          ELSE IF definition.kind # "group"
          THEN LET final == normalize_field(v, definition.kind,
                                            original_child[1].text)
               IN  IF final = <<>> THEN rest
                   ELSE <<Leaf(tag_name, final)>> \o rest
          ELSE <<Group(tag_name,
                       build_fragment_keep_empty_group(v, original_child[1],
                                                       definition.sub))>> \o rest

\* build_fragment as it would be without 'if final == "": continue'
RECURSIVE build_fragment_keep_empty_leaf(_, _, _)
build_fragment_keep_empty_leaf(v, node, order_map) ==
    IF order_map = <<>> THEN <<>>
    ELSE
      LET definition     == Head(order_map)
          tag_name       == definition.name
          rest           == build_fragment_keep_empty_leaf(v, node, Tail(order_map))
          original_child == find_child(node, tag_name)
      IN  IF original_child = <<>> THEN rest
          ELSE IF definition.kind # "group"
          THEN <<Leaf(tag_name, normalize_field(v, definition.kind,
                                                original_child[1].text))>> \o rest
          ELSE LET nested == build_fragment_keep_empty_leaf(v, original_child[1],
                                                            definition.sub)
               IN  IF nested # <<>>
                   THEN <<Group(tag_name, nested)>> \o rest
                   ELSE rest

\* build_fragment as it would be if it walked the children of the node, in
\* document order, instead of order_map
RECURSIVE build_fragment_source_order(_, _, _)
RECURSIVE walk_source_order(_, _, _)
walk_source_order(v, kids, order_map) ==
    IF kids = <<>> THEN <<>>
    ELSE
      LET child == Head(kids)
          defs  == SelectSeq(order_map, LAMBDA d : d.name = child.tag)
          rest  == walk_source_order(v, Tail(kids), order_map)
      IN  IF defs = <<>> THEN rest
          ELSE IF defs[1].kind # "group"
          THEN LET final == normalize_field(v, defs[1].kind, child.text)
               IN  IF final = <<>> THEN rest
                   ELSE <<Leaf(child.tag, final)>> \o rest
          ELSE LET nested == build_fragment_source_order(v, child, defs[1].sub)
               IN  IF nested # <<>>
                   THEN <<Group(child.tag, nested)>> \o rest
                   ELSE rest

build_fragment_source_order(v, node, order_map) ==
    walk_source_order(v, node.kids, order_map)

\* build_fragment: the emitted nodes, in the order of order_map
RECURSIVE build_fragment(_, _, _)
build_fragment(v, node, order_map) ==
    IF order_map = <<>> THEN <<>>
    ELSE
      LET definition     == Head(order_map)
          tag_name       == definition.name
          rest           == build_fragment(v, node, Tail(order_map))
          original_child == find_child(node, tag_name)
      IN  IF original_child = <<>> THEN rest
          ELSE IF definition.kind # "group"
          THEN LET final == normalize_field(v, definition.kind,
                                            original_child[1].text)
               IN  IF final = <<>> THEN rest
                   ELSE <<Leaf(tag_name, final)>> \o rest
          ELSE LET nested == build_fragment(v, original_child[1], definition.sub)
               IN  IF nested # <<>>
                   THEN <<Group(tag_name, nested)>> \o rest
                   ELSE rest

\* parent.remove(child) for the first child of that local name
remove_first(kids, tagname) ==
    IF \E k \in 1..Len(kids) : kids[k].tag = tagname
    THEN LET k == CHOOSE k \in 1..Len(kids) :
                     /\ kids[k].tag = tagname
                     /\ \A j \in 1..(k - 1) : kids[j].tag # tagname
         IN  SubSeq(kids, 1, k - 1) \o SubSeq(kids, k + 1, Len(kids))
    ELSE kids

\* the working copy: copy.deepcopy(nfts_node) without its first Assinatura
clean_tp_of(nfts_node) ==
    [nfts_node EXCEPT !.kids = remove_first(nfts_node.kids, "Assinatura")]

\* build_tpNFTS_bytes, altered: the signature is removed from nfts_node
\* itself, without copy.deepcopy
nfts_after_build_in_place(nfts_node) == clean_tp_of(nfts_node)

\* the caller's nfts_node once build_tpNFTS_bytes has returned: the function
\* removes the signature from copy.deepcopy(nfts_node) and builds the
\* canonical tree out of new elements
nfts_after_build(nfts_node) == nfts_node

\* canonical_root: Element("tpNFTS") extended with the fragment
canonical_root(v, nfts_node) ==
    Group("tpNFTS", build_fragment(v, clean_tp_of(nfts_node), canonical_order_map(v)))

(***************************************************************************)
(* etree.tostring and etree.fromstring.  Bytes are a sequence of tokens:   *)
(* a tag, a character, or the escape of a character.                       *)
(***************************************************************************)
OpenTag(n) == "<" \o n \o ">"

CloseTag(n) == "</" \o n \o ">"

EmptyTag(n) == "<" \o n \o "/>"

escape(c) ==
    CASE c = "&" -> "&amp;" [] c = "<" -> "&lt;" [] c = ">" -> "&gt;"
      [] OTHER -> c

unescape(tok) ==
    CASE tok = "&amp;" -> "&" [] tok = "&lt;" -> "<" [] tok = "&gt;" -> ">"
      [] OTHER -> tok

RECURSIVE tostring(_)
RECURSIVE tostring_all(_)
tostring_all(kids) ==
    IF kids = <<>> THEN <<>> ELSE tostring(Head(kids)) \o tostring_all(Tail(kids))

\* etree.tostring(el, encoding="utf-8", xml_declaration=False,
\* pretty_print=False) of an element without namespace or attributes
tostring(e) ==
    IF e.text = <<>> /\ e.kids = <<>> THEN <<EmptyTag(e.tag)>>
    ELSE <<OpenTag(e.tag)>>
           \o [k \in 1..Len(e.text) |-> escape(e.text[k])]
           \o tostring_all(e.kids)
           \o <<CloseTag(e.tag)>>

build_tpNFTS_bytes(v, nfts_node) == tostring(canonical_root(v, nfts_node))

RECURSIVE names_of(_)
names_of(order_map) ==
    IF order_map = <<>> THEN {}
    ELSE {Head(order_map).name} \cup names_of(Head(order_map).sub)
           \cup names_of(Tail(order_map))

TagNames == {"tpNFTS"} \cup names_of(canonical_order_map_CD)

IsOpenTag(tok) == \E n \in TagNames : tok = OpenTag(n)

IsCloseTag(tok) == \E n \in TagNames : tok = CloseTag(n)

IsEmptyTag(tok) == \E n \in TagNames : tok = EmptyTag(n)

IsTag(tok) == IsOpenTag(tok) \/ IsCloseTag(tok) \/ IsEmptyTag(tok)

TagNameOf(tok) ==
    CHOOSE n \in TagNames : tok \in {OpenTag(n), CloseTag(n), EmptyTag(n)}

\* character data from position p up to the next tag
RECURSIVE parse_text(_, _)
parse_text(toks, p) ==
    IF p > Len(toks) \/ IsTag(toks[p]) THEN [text |-> <<>>, next |-> p]
    ELSE LET r == parse_text(toks, p + 1)
         IN  [text |-> <<unescape(toks[p])>> \o r.text, next |-> r.next]

IsBlank(t) == \A k \in 1..Len(t) : t[k] \in WhiteSpace

\* the element starting at position p; with remove_blank_text=True the
\* parser drops whitespace-only text that stands before a child element
\* and keeps the text of an element without children
RECURSIVE parse_element(_, _)
RECURSIVE parse_children(_, _)
parse_children(toks, p) ==
    IF p > Len(toks) \/ IsCloseTag(toks[p]) THEN [kids |-> <<>>, next |-> p]
    ELSE LET e    == parse_element(toks, p)
             tail == parse_text(toks, e.next)
             r    == parse_children(toks, tail.next)
         IN  [kids |-> <<e.el>> \o r.kids, next |-> r.next]

parse_element(toks, p) ==
    IF IsEmptyTag(toks[p])
    THEN [el |-> Leaf(TagNameOf(toks[p]), <<>>), next |-> p + 1]
    ELSE LET tx == parse_text(toks, p + 1)
             ch == parse_children(toks, tx.next)
             text == IF ch.kids # <<>> /\ IsBlank(tx.text) THEN <<>> ELSE tx.text
         IN  [el |-> El(TagNameOf(toks[p]), "", text, ch.kids),
              next |-> ch.next + 1]

\* etree.fromstring(bytes, parser=XMLParser(remove_blank_text=True))
fromstring(toks) == parse_element(toks, 1).el

(***************************************************************************)
(* STATE MACHINE 1: the canonical builder applied to one record unit       *)
(***************************************************************************)
MaxKids == 2

SeqsUpTo(S, n) == UNION {[1..k -> S] : k \in 0..n}

\* children a record unit is drawn from: every normalization kind, a
\* namespaced duplicate, fields outside the canonical schema, nested groups
CanonPool ==
    { Leaf("TipoDocumento", <<"0", "1">>),
      El("TipoDocumento", NS_SP, <<"0", "2">>, <<>>),
      Leaf("ValorServicos", <<" ", "1", "2", "3", "4", ",", "5", " ">>),
      Leaf("ValorDeducoes", <<"1", ".", "2", "3", "4", ",", "5">>),
      Leaf("AliquotaServicos", <<"0", "3", ".", "0", "2", "5">>),
      Leaf("ISSRetidoTomador", <<"S", "i", "m">>),
      Leaf("DataPagamento", <<NBSP>>),
      Leaf("Assinatura", <<"x">>),
      Group("ChaveDocumento", << Leaf("NumeroDocumento", <<"0", "0", "7">>),
                                 Leaf("SerieNFTS", <<"A", "B">>) >>),
      Group("Prestador", << Group("Endereco", << Leaf("CEP", <<"0", "1", "2">>),
                                                 Leaf("UF", <<" ">>),
                                                 Leaf("Cidade", <<"0", "4", "2">>) >>),
                            Group("CPFCNPJ", << Leaf("CPF", <<>>) >>),
                            Leaf("Email", <<"m">>) >>),
      Group("Prestador", << Leaf("Email", <<>>),
                            Group("Endereco", << Leaf("ComplementoEndereco", <<>>) >>) >>),
      Group("Tomador", << Leaf("RazaoSocial", <<"B", "&", "C", NBSP>>),
                          Group("CPFCNPJ", << Leaf("CNPJ", <<"1">>),
                                              Leaf("CPF", <<"2">>) >>) >>) }

CanonUnits == {Group("NFTS", kids) : kids \in SeqsUpTo(CanonPool, MaxKids)}

InitCanon ==
    /\ variant \in {"NC", "CD"}
    /\ mode = "canon"
    /\ pc = "input"
    /\ root \in {<<u>> : u \in CanonUnits}
    /\ input = root
    /\ i = 0
    /\ keyOk = TRUE
    /\ xmlsecAvail = FALSE
    /\ xmlsecFails = FALSE
    /\ writeOk = TRUE
    /\ docSigned = FALSE
    /\ signedBytes = <<>>
    /\ pems = {}
    /\ output = <<>>
    /\ outcome = "running"
    /\ pubkey = "none"
    /\ report = <<>>
    /\ canon = <<>>
    /\ cbytes = <<>>
    /\ reparsed = <<>>
    /\ cbytes2 = <<>>
    /\ callFn = "none"
    /\ callArg = <<>>
    /\ callFlag = TRUE
    /\ callRet = <<>>

callVars == <<callFn, callArg, callFlag, callRet>>

procVars == <<variant, mode, root, input, i, keyOk, xmlsecAvail, xmlsecFails,
              writeOk, docSigned, signedBytes, pems, output, outcome, pubkey, report,
              callVars>>

\* build_tpNFTS_bytes(nfts): the canonical tree, then its bytes
Canonicalize ==
    /\ mode = "canon" /\ pc = "input"
    /\ canon' = <<canonical_root(variant, root[1])>>
    /\ cbytes' = build_tpNFTS_bytes(variant, root[1])
    /\ root' = <<nfts_after_build(root[1])>>
    /\ pc' = "built"
    /\ UNCHANGED <<variant, mode, input, i, keyOk, xmlsecAvail, xmlsecFails,
                   writeOk, docSigned, signedBytes, pems, output, outcome,
                   pubkey, report, callVars, reparsed, cbytes2>>

\* the canonical bytes parsed back into a tree
Reparse ==
    /\ mode = "canon" /\ pc = "built"
    /\ reparsed' = <<fromstring(cbytes)>>
    /\ pc' = "reparsed"
    /\ UNCHANGED <<procVars, canon, cbytes, cbytes2>>

\* build_tpNFTS_bytes of the reparsed tree
Recanonicalize ==
    /\ mode = "canon" /\ pc = "reparsed"
    /\ cbytes2' = build_tpNFTS_bytes(variant, reparsed[1])
    /\ pc' = "rebuilt"
    /\ UNCHANGED <<procVars, canon, cbytes, reparsed>>

NextCanon == Canonicalize \/ Reparse \/ Recanonicalize

SpecCanon == InitCanon /\ [][NextCanon]_vars

(***************************************************************************)
(* CLAIMS about the canonical builder (specification SpecCanon)            *)
(***************************************************************************)
UnitUnderTest == root[1]

Built == mode = "canon" /\ pc = "built"

\* a node of the canonical tree carries text or children, and so does
\* every node below it
RECURSIVE WellPruned(_)
WellPruned(e) ==
    /\ e.text # <<>> \/ e.kids # <<>>
    /\ e.text # <<>> => e.kids = <<>>
    /\ \A k \in 1..Len(e.kids) : WellPruned(e.kids[k])

\* C4: in the tree build_tpNFTS_bytes produces, no leaf has empty text and
\* no group below the root has zero children, at every nesting depth.
Thm_C4_Pruning ==
    (mode = "canon" /\ pc # "input") =>
        \A k \in 1..Len(canon[1].kids) : WellPruned(canon[1].kids[k])

\* a unit holding a group whose fields are all empty and a field that
\* cleans to the empty text: its canonical tree is the bare root
Wit_C4_Pruning ==
    /\ Built
    /\ Len(UnitUnderTest.kids) = 2
    /\ UnitUnderTest.kids[1].tag = "Prestador"
    /\ UnitUnderTest.kids[2].tag = "DataPagamento"
    /\ canon[1].kids = <<>>

\* the node with its first child of that local name replaced
replace_first(node, tagname, new) ==
    LET k == CHOOSE k \in 1..Len(node.kids) :
                 /\ node.kids[k].tag = tagname
                 /\ \A j \in 1..(k - 1) : node.kids[j].tag # tagname
    IN  [node EXCEPT !.kids[k] = new]

\* every way to give the node, or a group of it that the builder reaches,
\* one schema field it lacks, present with empty text; with the field's kind
RECURSIVE WithEmptyField(_, _)
WithEmptyField(node, order_map) ==
    LET D == {order_map[k] : k \in 1..Len(order_map)} IN
    { [node |-> [node EXCEPT !.kids = Append(@, Leaf(d.name, <<>>))],
       kind |-> d.kind] : d \in {d \in D : find_child(node, d.name) = <<>>} }
    \cup
    UNION { { [node |-> replace_first(node, d.name, r.node), kind |-> r.kind] :
                r \in WithEmptyField(find_child(node, d.name)[1], d.sub) } :
            d \in {d \in D : d.kind = "group" /\ find_child(node, d.name) # <<>>} }

\* the kinds whose normalizer turns the empty text into a non-empty one
EmptyIsEmitted(v, kind) == kind = "bool" \/ (kind = "serie" /\ v = "CD")

\* C5 as stated: for any unit and any field of the schema, the unit without
\* the field and the unit with the field present but empty have the same
\* canonical bytes.
Orig_C5_AbsentEqualsEmpty ==
    Built =>
        \A r \in WithEmptyField(UnitUnderTest, canonical_order_map(variant)) :
            build_tpNFTS_bytes(variant, r.node) = cbytes

\* C5 as amended: the same, for every field or group except the Boolean
\* fields and, where normalize_serie_nfts pads (CD), SerieNFTS.
Thm_C5_AbsentEqualsEmpty ==
    Built =>
        \A r \in WithEmptyField(UnitUnderTest, canonical_order_map(variant)) :
            ~ EmptyIsEmitted(variant, r.kind) =>
                build_tpNFTS_bytes(variant, r.node) = cbytes

\* a unit with a ChaveDocumento group that lacks InscricaoMunicipal: the empty
\* field is added inside the group, and the bytes are not the bare root
Wit_C5_AbsentEqualsEmpty ==
    /\ Built
    /\ find_child(UnitUnderTest, "ChaveDocumento") # <<>>
    /\ \E r \in WithEmptyField(UnitUnderTest, canonical_order_map(variant)) :
          /\ r.kind = "str"
          /\ find_child(find_child(r.node, "ChaveDocumento")[1],
                        "InscricaoMunicipal") # <<>>
          /\ build_tpNFTS_bytes(variant, r.node) = cbytes
    /\ Len(cbytes) > 1

Position(order_map, name) ==
    CHOOSE k \in 1..Len(order_map) : order_map[k].name = name

\* the nodes are in the order of order_map, at every level
RECURSIVE InSchemaOrder(_, _)
InSchemaOrder(nodes, order_map) ==
    /\ \A k \in 1..Len(nodes) : \E d \in 1..Len(order_map) :
          order_map[d].name = nodes[k].tag
    /\ \A j, k \in 1..Len(nodes) :
          j < k => Position(order_map, nodes[j].tag) < Position(order_map, nodes[k].tag)
    /\ \A k \in 1..Len(nodes) :
          InSchemaOrder(nodes[k].kids,
                        order_map[Position(order_map, nodes[k].tag)].sub)

Permutations(n) == {f \in [1..n -> 1..n] : \A a, b \in 1..n : f[a] = f[b] => a = b}

DistinctNames(kids) ==
    \A j, k \in 1..Len(kids) : kids[j].tag = kids[k].tag => j = k

\* every tree got by permuting the children of the node or of one node
\* below it; with whether the permuted children had distinct local names
RECURSIVE Permuted(_)
Permuted(node) ==
    { [node |-> [node EXCEPT !.kids = [k \in 1..Len(node.kids) |-> node.kids[f[k]]]],
       distinct |-> DistinctNames(node.kids)] : f \in Permutations(Len(node.kids)) }
    \cup
    UNION { { [node |-> [node EXCEPT !.kids[k] = r.node], distinct |-> r.distinct] :
                r \in Permuted(node.kids[k]) } : k \in 1..Len(node.kids) }

\* C7 as stated: the emitted nodes follow canonical_order_map at every
\* level, and permuting the children of the unit or of any of its groups
\* does not change the bytes.
Orig_C7_SchemaOrder ==
    Built =>
        /\ InSchemaOrder(canon[1].kids, canonical_order_map(variant))
        /\ \A r \in Permuted(UnitUnderTest) :
              build_tpNFTS_bytes(variant, r.node) = cbytes

\* C7 as amended: the emitted nodes follow canonical_order_map at every
\* level, and permuting children that have pairwise distinct local names
\* does not change the bytes.
Thm_C7_SchemaOrder ==
    Built =>
        /\ InSchemaOrder(canon[1].kids, canonical_order_map(variant))
        /\ \A r \in Permuted(UnitUnderTest) :
              r.distinct => build_tpNFTS_bytes(variant, r.node) = cbytes

\* a unit whose two children stand against the schema order, one of them a
\* group whose own children stand against it too
Wit_C7_SchemaOrder ==
    /\ Built
    /\ Len(UnitUnderTest.kids) = 2
    /\ UnitUnderTest.kids[1].tag = "Tomador"
    /\ UnitUnderTest.kids[2].tag = "TipoDocumento"
    /\ Len(canon[1].kids) = 2
    /\ canon[1].kids[1].tag = "TipoDocumento"
    /\ canon[1].kids[2].kids[1].tag = "CPFCNPJ"

\* what the builder can reach of a node through the names of order_map: the
\* first child of each name, its text (a field) or its reachable part (a
\* group), without namespace, in document order
RECURSIVE reachable(_, _)
reachable(node, order_map) ==
    LET idx == {k \in 1..Len(node.kids) :
                  /\ \E d \in 1..Len(order_map) : order_map[d].name = node.kids[k].tag
                  /\ \A j \in 1..(k - 1) : node.kids[j].tag # node.kids[k].tag}
        pick == SelectSeq([k \in 1..Len(node.kids) |->
                              IF k \in idx THEN <<node.kids[k]>> ELSE <<>>],
                          LAMBDA x : x # <<>>)
        part(c) == LET d == order_map[Position(order_map, c.tag)] IN
                   IF d.kind = "group"
                   THEN Group(c.tag, reachable(c, d.sub).kids)
                   ELSE Leaf(c.tag, c.text)
    IN  Group(node.tag, [k \in 1..Len(pick) |-> part(pick[k][1])])

\* fields that no canonical_order_map names
OutsideFields ==
    { Leaf("Assinatura", <<"Q", "U", "J", "D">>),
      Leaf("ExigibilidadeSuspensa", <<"1">>),
      Leaf("PagamentoParceladoAntecipado", <<"0">>),
      Leaf("CodigoCEI", <<"9">>) }

insert_at(node, k, e) ==
    [node EXCEPT !.kids = SubSeq(@, 1, k) \o <<e>> \o SubSeq(@, k + 1, Len(@))]

\* C8: the bytes depend only on what is reachable through the names of
\* canonical_order_map: a unit, the unit cut down to its reachable part, and
\* the unit with a field outside the schema added anywhere, all have the
\* same canonical bytes.
Thm_C8_OnlySchemaContent ==
    Built =>
        /\ build_tpNFTS_bytes(variant,
                reachable(UnitUnderTest, canonical_order_map(variant))) = cbytes
        /\ \A e \in OutsideFields : \A k \in 0..Len(UnitUnderTest.kids) :
              build_tpNFTS_bytes(variant, insert_at(UnitUnderTest, k, e)) = cbytes

\* a unit with a signature and a namespaced field: its reachable part is
\* another tree, with the same bytes
Wit_C8_OnlySchemaContent ==
    /\ Built
    /\ find_child(UnitUnderTest, "Assinatura") # <<>>
    /\ \E k \in 1..Len(UnitUnderTest.kids) : UnitUnderTest.kids[k].ns = NS_SP
    /\ reachable(UnitUnderTest, canonical_order_map(variant)) # UnitUnderTest
    /\ Len(cbytes) > 1

(***************************************************************************)
(* Signatures.  An RSA PKCS#1 v1.5 signature is a function of the key and  *)
(* of the signed bytes; SigChunk(key, bytes) stands for the base64         *)
(* characters of that signature, one token of a text.                      *)
(***************************************************************************)
Keys == {"pfx", "other"}

\* the key pair of the PFX given to sign_file
PrivateKey == "pfx"

RECURSIVE Join(_)
Join(toks) == IF toks = <<>> THEN "" ELSE Head(toks) \o Join(Tail(toks))

\* base64.b64encode(private_key.sign(bytes, PKCS1v15, SHA1)).decode("ascii")
SigChunk(key, bytes) == "SIG[" \o key \o "|" \o Join(bytes) \o "]"

sign_b64(key, bytes) == <<SigChunk(key, bytes)>>

B64Chars ==
    {UpperCase[k] : k \in 1..26} \cup {LowerCase[k] : k \in 1..26}
      \cup DecDigits \cup {"+", "/"}

(***************************************************************************)
(* STATE MACHINE 2: sign_file and verify_signed_nfts over a document       *)
(***************************************************************************)
MaxUnits == 2

TD(text) == Leaf("TipoDocumento", text)

TomadorB == Group("Tomador", << Leaf("RazaoSocial", <<"B">>) >>)

\* record units a document is made of: in and against the declared order,
\* namespaced, with a repeated name, with a field NFTS_ELEMENT_ORDER does not
\* list, with the signature of another key, with an empty, an undecodable
\* and a second signature element
ProcUnits ==
    { Group("NFTS", << TD(<<"0", "1">>), TomadorB >>),
      Group("NFTS", << TomadorB,
                       Leaf("Assinatura",
                            sign_b64("other",
                                     build_tpNFTS_bytes("CD",
                                         Group("NFTS", << TD(<<"0", "1">>), TomadorB >>)))),
                       TD(<<"0", "1">>) >>),
      Group("NFTS", << El("TipoDocumento", NS_SP, <<"0", "1">>, <<>>) >>),
      Group("NFTS", << TD(<<"0", "1">>), TD(<<"0", "2">>) >>),
      Group("NFTS", << TD(<<"0", "1">>), Leaf("CodigoCEI", <<"9">>) >>),
      Group("NFTS", << Leaf("Assinatura", <<>>), TD(<<"0", "1">>) >>),
      Group("NFTS", << TD(<<"0", "1">>), Leaf("Assinatura", <<"x", "!">>) >>),
      Group("NFTS", << Leaf("Assinatura", <<"Q", "U", "J", "D", "\n">>),
                       TD(<<"0", "1">>),
                       El("Assinatura", NS_SP, <<"x", "!">>, <<>>) >>) }

Documents == SeqsUpTo(ProcUnits, MaxUnits)

\* the characters the texts of the model are written in; every other token
\* of a text is a signature chunk
TextChars ==
    B64Chars \cup WhiteSpace \cup {"=", "!", ",", ".", "-", "&", "<", ">", SUP2}

\* the characters of a text that are not signature chunks
RECURSIVE plain_chars(_)
plain_chars(t) ==
    IF t = <<>> THEN <<>>
    ELSE IF Head(t) \notin TextChars THEN plain_chars(Tail(t))
         ELSE <<Head(t)>> \o plain_chars(Tail(t))

\* base64.b64decode(text, validate=True) returns (does not raise
\* binascii.Error): base64 characters, at most two "=" at the end, a
\* multiple of four characters
b64_valid(t) ==
    LET chars == plain_chars(t)
        pad   == IF Len(chars) >= 2 /\ chars[Len(chars)] = "=" /\ chars[Len(chars) - 1] = "="
                 THEN 2
                 ELSE IF Len(chars) >= 1 /\ chars[Len(chars)] = "=" THEN 1 ELSE 0
    IN  /\ \A k \in 1..(Len(chars) - pad) : chars[k] \in B64Chars
        /\ Len(chars) % 4 = 0

\* pubkey.verify(sig_bytes, bytes, PKCS1v15, SHA1) returns (does not raise
\* InvalidSignature): the decoded bytes are the signature of bytes under
\* the key
rsa_verifies(key, assinatura_b64, bytes) == assinatura_b64 = sign_b64(key, bytes)

InitProc ==
    /\ variant \in {"NC", "CD"}
    /\ mode \in {"sign", "verify"}
    /\ mode = "verify" => variant = "CD"
    /\ pc = "start"
    /\ root \in Documents
    /\ input = root
    /\ i = 0
    /\ keyOk \in BOOLEAN
    /\ xmlsecAvail \in BOOLEAN
    /\ xmlsecFails \in BOOLEAN
    /\ writeOk \in BOOLEAN
    \* what is never read stays fixed
    /\ ~ xmlsecAvail => ~ xmlsecFails
    /\ (~ keyOk \/ mode = "verify") => (~ xmlsecAvail /\ writeOk)
    /\ docSigned = FALSE
    /\ signedBytes = <<>>
    /\ pems = {}
    /\ output = <<>>
    /\ outcome = "running"
    /\ pubkey \in (IF mode = "verify" THEN Keys ELSE {"none"})
    /\ report = <<>>
    /\ canon = <<>>
    /\ cbytes = <<>>
    /\ reparsed = <<>>
    /\ cbytes2 = <<>>
    /\ callFn = "none"
    /\ callArg = <<>>
    /\ callFlag = TRUE
    /\ callRet = <<>>

canonVars == <<canon, cbytes, reparsed, cbytes2, callVars>>

envVars == <<variant, keyOk, xmlsecAvail, xmlsecFails, writeOk, input>>

\* sign_file: read_pkcs12 raises when the PFX yields no key or certificate
ReadPkcs12 ==
    /\ mode = "sign" /\ pc = "start"
    /\ IF keyOk
       THEN pc' = "pems" /\ outcome' = outcome
       ELSE pc' = "done" /\ outcome' = "error"
    /\ UNCHANGED <<envVars, canonVars, mode, root, i, docSigned, signedBytes,
                   pems, output, pubkey, report>>

\* sign_file: the certificate and the unencrypted private key are written
\* to tmp_cert_nfts.pem and tmp_key_nfts.pem
WritePems ==
    /\ mode = "sign" /\ pc = "pems"
    /\ pems' = {"tmp_cert_nfts.pem", "tmp_key_nfts.pem"}
    /\ pc' = "find"
    /\ UNCHANGED <<envVars, canonVars, mode, root, i, docSigned, signedBytes,
                   output, outcome, pubkey, report>>

\* sign_file: nfts_nodes = root.xpath('//*[local-name()="NFTS"]'); with no
\* node CD raises SystemExit(1) and NC returns
FindUnits ==
    /\ mode = "sign" /\ pc = "find"
    /\ IF root = <<>>
       THEN /\ pc' = "done"
            /\ outcome' = IF variant = "CD" THEN "error" ELSE "ok"
            /\ i' = i
       ELSE /\ pc' = "loop"
            /\ outcome' = outcome
            /\ i' = 1
    /\ UNCHANGED <<envVars, canonVars, mode, root, docSigned, signedBytes,
                   pems, output, pubkey, report>>

\* NC lines 252-259: elements_dict = {el.tag: el for el in nfts} keeps, for
\* each qualified name, the last child of that name; the unit is emptied and
\* refilled in the order of NFTS_ELEMENT_ORDER
reassemble_NC(nfts, assin_el) ==
    LET kids == nfts.kids
        in_dict(tag) == tag = "Assinatura"
                          \/ \E k \in 1..Len(kids) : QName(kids[k]) = tag
        value(tag) ==
            IF tag = "Assinatura" THEN assin_el
            ELSE kids[CHOOSE k \in 1..Len(kids) :
                        /\ QName(kids[k]) = tag
                        /\ \A j \in (k + 1)..Len(kids) : QName(kids[j]) # tag]
        refill[n \in 0..Len(NFTS_ELEMENT_ORDER)] ==
            IF n = 0 THEN <<>>
            ELSE IF in_dict(NFTS_ELEMENT_ORDER[n])
                 THEN Append(refill[n - 1], value(NFTS_ELEMENT_ORDER[n]))
                 ELSE refill[n - 1]
    IN  [nfts EXCEPT !.kids = refill[Len(NFTS_ELEMENT_ORDER)]]

\* CD lines 416-423: the first child of local name Assinatura gets the new
\* text; without one, a new Assinatura is appended
insert_signature_CD(nfts, assin_text) ==
    IF find_child(nfts, "Assinatura") = <<>>
    THEN [nfts EXCEPT !.kids = Append(@, Leaf("Assinatura", assin_text))]
    ELSE replace_first(nfts, "Assinatura",
                       [find_child(nfts, "Assinatura")[1] EXCEPT !.text = assin_text])

\* the body of the loop of sign_file for one unit
sign_unit(v, nfts) ==
    LET canonical_bytes == build_tpNFTS_bytes(v, nfts)
        sig_b64         == sign_b64(PrivateKey, canonical_bytes)
        assin_text      == remove_whitespace(sig_b64)
        after           == nfts_after_build(nfts)
    IN  IF v = "NC"
        THEN reassemble_NC(after, Leaf("Assinatura", assin_text))
        ELSE insert_signature_CD(after, assin_text)

\* sign_file: one pass of "for i, nfts in enumerate(nfts_nodes, start=1)"
SignUnit ==
    /\ mode = "sign" /\ pc = "loop"
    /\ signedBytes' = Append(signedBytes, build_tpNFTS_bytes(variant, root[i]))
    /\ root' = [root EXCEPT ![i] = sign_unit(variant, root[i])]
    /\ IF i < Len(root)
       THEN i' = i + 1 /\ pc' = pc
       ELSE i' = i /\ pc' = "xmlsec"
    /\ UNCHANGED <<envVars, canonVars, mode, docSigned, pems, output, outcome,
                   pubkey, report>>

\* SignDocument, altered: without xmlsec the step raises, as
\* sign_document_xmlsec of CD would if it were called
SignDocument_raises_without_xmlsec ==
    /\ mode = "sign" /\ pc = "xmlsec"
    /\ IF ~ xmlsecAvail \/ (xmlsecFails /\ variant = "NC")
       THEN pc' = "done" /\ outcome' = "error"
       ELSE pc' = "write" /\ outcome' = outcome
    /\ docSigned' = (xmlsecAvail /\ ~ xmlsecFails)
    /\ UNCHANGED <<envVars, canonVars, mode, root, i, signedBytes, pems,
                   output, pubkey, report>>

\* sign_file: the optional signature of the whole document.  CD catches
\* what xmlsec raises; NC does not.
SignDocument ==
    /\ mode = "sign" /\ pc = "xmlsec"
    /\ IF xmlsecAvail /\ xmlsecFails /\ variant = "NC"
       THEN pc' = "done" /\ outcome' = "error"
       ELSE pc' = "write" /\ outcome' = outcome
    /\ docSigned' = (xmlsecAvail /\ ~ xmlsecFails)
    /\ UNCHANGED <<envVars, canonVars, mode, root, i, signedBytes, pems,
                   output, pubkey, report>>

\* sign_file: the signed document is serialized into the SOAP envelope and
\* written to output_soap_path; open() or write() may raise
WriteOutput ==
    /\ mode = "sign" /\ pc = "write"
    /\ IF writeOk
       THEN pc' = "cleanup" /\ output' = <<root>> /\ outcome' = outcome
       ELSE pc' = "done" /\ output' = output /\ outcome' = "error"
    /\ UNCHANGED <<envVars, canonVars, mode, root, i, docSigned, signedBytes,
                   pems, pubkey, report>>

\* sign_file: the temporary PEM files are removed, and sign_file returns
Cleanup ==
    /\ mode = "sign" /\ pc = "cleanup"
    /\ pems' = {}
    /\ pc' = "done"
    /\ outcome' = "ok"
    /\ UNCHANGED <<envVars, canonVars, mode, root, i, docSigned, signedBytes,
                   output, pubkey, report>>

\* the signed document is handed to verify_signed_nfts of CD, with the PFX
\* that signed it or with another one; variant keeps naming the script that
\* signed
StartVerify ==
    /\ mode = "sign" /\ pc = "done" /\ outcome = "ok" /\ output # <<>>
    /\ mode' = "verify"
    /\ pc' = "start"
    /\ root' = output[1]
    /\ pubkey' \in Keys
    /\ i' = 0
    /\ report' = <<>>
    /\ outcome' = "running"
    /\ UNCHANGED <<envVars, canonVars, docSigned, signedBytes, pems, output>>

\* verify_signed_nfts: pkcs12.load_key_and_certificates and cert.public_key()
LoadCertificate ==
    /\ mode = "verify" /\ pc = "start"
    /\ IF keyOk
       THEN pc' = "find" /\ outcome' = outcome
       ELSE pc' = "done" /\ outcome' = "error"
    /\ UNCHANGED <<envVars, canonVars, mode, root, i, docSigned, signedBytes,
                   pems, output, pubkey, report>>

\* verify_signed_nfts: with no NFTS node the function logs and returns
VerifyFindUnits ==
    /\ mode = "verify" /\ pc = "find"
    /\ IF root = <<>>
       THEN pc' = "done" /\ outcome' = "ok" /\ i' = i
       ELSE pc' = "loop" /\ outcome' = outcome /\ i' = 1
    /\ UNCHANGED <<envVars, canonVars, mode, root, docSigned, signedBytes,
                   pems, output, pubkey, report>>

\* hashes.Hash(hashes.SHA1()) of the bytes, as hex
sha1_hex(bytes) == "sha1(" \o Join(bytes) \o ")"

\* len(sig_bytes): three bytes for four characters less the padding; the
\* signature of a 2048-bit key has 256 bytes
decoded_len(t) ==
    LET chars == plain_chars(t)
        pad   == Cardinality({k \in 1..Len(chars) : chars[k] = "="})
    IN  3 * (Len(chars) \div 4) - pad + 256 * (Len(t) - Len(chars))

\* cert.subject.rfc4514_string()
subject_of(key) == "CN=" \o key

Entry(unit, result, digest, siglen, subject) ==
    [unit |-> unit, result |-> result, digest |-> digest, siglen |-> siglen,
     subject |-> subject]

\* verify_unit, altered: the diagnostics are logged for every unit whose
\* signature decodes, valid or not
verify_unit_diagnose_all(v, key, n, nfts) ==
    LET assin_node     == xpath_local_name(nfts, "Assinatura")
        assinatura_b64 == remove_whitespace(assin_node[1].text)
        canonical_bytes == build_tpNFTS_bytes(v, nfts)
    IN  IF assin_node = <<>> THEN Entry(n, "no_signature", "", -1, "")
        ELSE IF ~ b64_valid(assinatura_b64) THEN Entry(n, "bad_base64", "", -1, "")
        ELSE Entry(n,
                   IF rsa_verifies(key, assinatura_b64, canonical_bytes)
                   THEN "valid" ELSE "invalid",
                   sha1_hex(canonical_bytes),
                   decoded_len(assinatura_b64), subject_of(key))

\* what one pass of the loop of verify_signed_nfts logs for a unit whose
\* Assinatura has text
verify_unit(v, key, n, nfts) ==
    LET assin_node     == xpath_local_name(nfts, "Assinatura")
        assinatura_b64 == remove_whitespace(assin_node[1].text)
        canonical_bytes == build_tpNFTS_bytes(v, nfts)
    IN  IF assin_node = <<>> THEN Entry(n, "no_signature", "", -1, "")
        ELSE IF ~ b64_valid(assinatura_b64) THEN Entry(n, "bad_base64", "", -1, "")
        ELSE IF rsa_verifies(key, assinatura_b64, canonical_bytes)
        THEN Entry(n, "valid", "", -1, "")
        ELSE Entry(n, "invalid", sha1_hex(canonical_bytes),
                   decoded_len(assinatura_b64), subject_of(key))

\* assin_node[0].text.split() raises AttributeError when the first
\* Assinatura has no text (text is None): nothing catches it
text_is_none(nfts) ==
    LET assin_node == xpath_local_name(nfts, "Assinatura") IN
    assin_node # <<>> /\ assin_node[1].text = <<>>

\* verify_signed_nfts reaches build_tpNFTS_bytes(nfts) for a unit whose
\* signature decodes
reaches_build(nfts) ==
    LET assin_node == xpath_local_name(nfts, "Assinatura") IN
    /\ assin_node # <<>>
    /\ assin_node[1].text # <<>>
    /\ b64_valid(remove_whitespace(assin_node[1].text))

\* verify_signed_nfts: one pass of "for i, nfts in enumerate(nfts_nodes)"
VerifyUnit ==
    /\ mode = "verify" /\ pc = "loop"
    /\ root' = IF reaches_build(root[i])
               THEN [root EXCEPT ![i] = nfts_after_build(root[i])]
               ELSE root
    /\ IF text_is_none(root[i])
       THEN /\ pc' = "done" /\ outcome' = "error"
            /\ report' = report /\ i' = i
       ELSE /\ report' = Append(report, verify_unit("CD", pubkey, i, root[i]))
            /\ IF i < Len(root)
               THEN i' = i + 1 /\ pc' = pc /\ outcome' = outcome
               ELSE i' = i /\ pc' = "done" /\ outcome' = "ok"
    /\ UNCHANGED <<envVars, canonVars, mode, docSigned, signedBytes,
                   pems, output, pubkey>>

Init == InitProc

Next ==
    \/ ReadPkcs12 \/ WritePems \/ FindUnits \/ SignUnit \/ SignDocument
    \/ WriteOutput \/ Cleanup
    \/ StartVerify \/ LoadCertificate \/ VerifyFindUnits \/ VerifyUnit

Spec == Init /\ [][Next]_vars

(***************************************************************************)
(* CLAIMS about sign_file and verify_signed_nfts                           *)
(***************************************************************************)
\* sign_file has left its loop: every unit of the document is signed
LoopDone ==
    /\ mode = "sign"
    /\ pc \in {"xmlsec", "write", "cleanup", "done"}
    /\ Len(signedBytes) = Len(root)

\* the number of children of the unit equal to the element
count(nfts, e) == Cardinality({k \in 1..Len(nfts.kids) : nfts.kids[k] = e})

\* the local names of the children of the unit, in document order
child_names(nfts) == [k \in 1..Len(nfts.kids) |-> nfts.kids[k].tag]

\* the names are, in this order, names of the list, each further down the
\* list than the one before
IsSubsequence(names, order) ==
    /\ \A k \in 1..Len(names) : \E p \in 1..Len(order) : order[p] = names[k]
    /\ \A j, k \in 1..Len(names) :
          j < k => (CHOOSE p \in 1..Len(order) : order[p] = names[j])
                     < (CHOOSE p \in 1..Len(order) : order[p] = names[k])

\* C1: round trip.  Once sign_file has inserted the signature and
\* reassembled a unit, build_tpNFTS_bytes of the signed unit gives exactly
\* the bytes that were signed, and the signature the unit carries is the
\* one the matching public key accepts for them.
\* NC refutes it: the reassembly drops from the unit a child the canonical
\* bytes were built from.
Orig_C1_RoundTrip ==
    LoopDone =>
        \A k \in 1..Len(root) :
            /\ build_tpNFTS_bytes(variant, root[k]) = signedBytes[k]
            /\ find_child(root[k], "Assinatura") # <<>>
            /\ rsa_verifies(PrivateKey, find_child(root[k], "Assinatura")[1].text,
                            build_tpNFTS_bytes(variant, root[k]))

\* C2: reassembly drops nothing.  Every child of the original unit that is
\* not a signature field is, after sign_file, a child of the unit as many
\* times as it was, and the unit carries the new signature.
\* NC refutes it: a child whose name NFTS_ELEMENT_ORDER does not list, a
\* namespaced child and all but the last of the children of one name are
\* gone.
Orig_C2_ReassemblyDropsNothing ==
    LoopDone =>
        \A k \in 1..Len(root) :
            /\ \A c \in {input[k].kids[n] : n \in 1..Len(input[k].kids)} :
                  c.tag # "Assinatura" => count(root[k], c) = count(input[k], c)
            /\ \E n \in 1..Len(root[k].kids) :
                  /\ root[k].kids[n].tag = "Assinatura"
                  /\ root[k].kids[n].text
                       = remove_whitespace(sign_b64(PrivateKey, signedBytes[k]))

\* C3: order invariant.  After sign_file the names of the children of every
\* signed unit are a subsequence of NFTS_ELEMENT_ORDER, whatever the order
\* of the children in the input.
\* CD refutes it: it leaves the children where they were and puts the
\* signature in the place of the old one, or last.
Orig_C3_OrderInvariant ==
    LoopDone =>
        \A k \in 1..Len(root) :
            IsSubsequence(child_names(root[k]), NFTS_ELEMENT_ORDER)

\* C9: per-unit isolation.  verify_signed_nfts, once the certificate is
\* loaded, ends normally with one report entry for every unit of the
\* document: a unit without a signature field, or with one that cannot be
\* decoded, is reported and the later units are still verified.
\* CD refutes it: an Assinatura element without text ends the run.
Orig_C9_PerUnitIsolation ==
    (mode = "verify" /\ pc = "done" /\ keyOk) =>
        /\ outcome = "ok"
        /\ Len(report) = Len(root)
        /\ \A k \in 1..Len(report) :
              /\ report[k].unit = k
              /\ xpath_local_name(root[k], "Assinatura") = <<>>
                    => report[k].result = "no_signature"

\* C10: fatal errors.  When sign_file cannot load the key material or finds
\* no record unit, no unit is canonicalized, signed or modified, no output
\* is written, and the run ends in an error.
\* NC refutes it: with no record unit it logs and returns normally.
Orig_C10_FatalAbort ==
    (mode = "sign" /\ pc = "done" /\ (~ keyOk \/ input = <<>>)) =>
        /\ signedBytes = <<>>
        /\ root = input
        /\ output = <<>>
        /\ outcome = "error"

\* the signature of the unit decodes and is not the one the key accepts for
\* the canonical bytes of the unit
fails_verification(key, nfts) ==
    LET assin_node == xpath_local_name(nfts, "Assinatura") IN
    /\ assin_node # <<>>
    /\ b64_valid(remove_whitespace(assin_node[1].text))
    /\ ~ rsa_verifies(key, remove_whitespace(assin_node[1].text),
                      build_tpNFTS_bytes("CD", nfts))

\* C11: signature mismatch.  verify_signed_nfts reports a unit as invalid
\* exactly when its decoded signature does not verify; for such a unit, and
\* for no other, it reports the digest of the canonical bytes, the length
\* of the decoded signature and the subject of the certificate; and after
\* such a unit that is not the last the verifier is at a later unit.
Thm_C11_MismatchDiagnostics ==
    mode = "verify" =>
        \A k \in 1..Len(report) :
            /\ report[k].unit = k
            /\ (report[k].result = "invalid") <=> fails_verification(pubkey, root[k])
            /\ IF fails_verification(pubkey, root[k])
               THEN /\ report[k].digest = sha1_hex(build_tpNFTS_bytes("CD", root[k]))
                    /\ report[k].siglen
                         = decoded_len(remove_whitespace(
                              xpath_local_name(root[k], "Assinatura")[1].text))
                    /\ report[k].subject = subject_of(pubkey)
                    /\ k < Len(root) => i > k
               ELSE /\ report[k].digest = ""
                    /\ report[k].siglen = -1
                    /\ report[k].subject = ""

\* a unit failed verification, its diagnostics are reported, and the unit
\* after it was verified and found valid
Wit_C11_MismatchDiagnostics ==
    /\ mode = "verify"
    /\ Len(report) = 2
    /\ report[1].result = "invalid"
    /\ report[1].digest # ""
    /\ report[1].siglen = 3
    /\ report[2].result = "valid"

\* C12: insert-or-replace.  After sign_file every unit has exactly one
\* child of local name Assinatura, whatever signature children the input
\* unit had, and its text is the base64 text, free of whitespace, of the
\* signature of the bytes canonicalized for that unit.
\* CD refutes it: only the first Assinatura is replaced, a second one stays.
Orig_C12_InsertOrReplace ==
    LoopDone =>
        \A k \in 1..Len(root) :
            /\ Len(xpath_local_name(root[k], "Assinatura")) = 1
            /\ xpath_local_name(root[k], "Assinatura")[1].text
                 = remove_whitespace(sign_b64(PrivateKey, signedBytes[k]))
            /\ \A n \in 1..Len(xpath_local_name(root[k], "Assinatura")[1].text) :
                  xpath_local_name(root[k], "Assinatura")[1].text[n] \notin WhiteSpace

\* the unit carries the signature of the bytes canonicalized for it
carries_signature(nfts, bytes) ==
    \E n \in 1..Len(nfts.kids) :
        /\ nfts.kids[n].tag = "Assinatura"
        /\ nfts.kids[n].text = remove_whitespace(sign_b64(PrivateKey, bytes))

\* C13: optional whole-document signing.  Without xmlsec, sign_file passes
\* the whole-document step without raising: every unit is signed, the
\* document carries no whole-document signature, and the run ends with the
\* output written, unless the write itself fails.
Thm_C13_XmlsecOptional ==
    (/\ mode = "sign" /\ ~ xmlsecAvail
     /\ keyOk /\ input # <<>>
     /\ pc \in {"write", "cleanup", "done"}) =>
        /\ Len(signedBytes) = Len(root)
        /\ \A k \in 1..Len(root) : carries_signature(root[k], signedBytes[k])
        /\ ~ docSigned
        /\ pc = "done" =>
              /\ writeOk => (outcome = "ok" /\ output = <<root>>)
              /\ ~ writeOk => (outcome = "error" /\ output = <<>>)
        /\ pc # "done" => outcome = "running"

\* a run without xmlsec has ended with every unit signed and the output
\* written
Wit_C13_XmlsecOptional ==
    /\ mode = "sign" /\ ~ xmlsecAvail
    /\ pc = "done" /\ outcome = "ok"
    /\ root # <<>>
    /\ output = <<root>>
    /\ \A k \in 1..Len(root) : carries_signature(root[k], signedBytes[k])

(***************************************************************************)
(* STATE MACHINE 3: one normalization function called on one text, and the *)
(* field of that kind canonicalized                                        *)
(***************************************************************************)
MaxText == 3

NormChars == {"0", "4", "5", " ", NBSP, ",", ".", "s"}

\* texts beyond the short ones: the words of normalize_boolean_value in
\* several cases, numerals with zeros, signs, separators and padding,
\* digits int() rejects, the special spellings of float(), series longer
\* and shorter than the width
NormSamples ==
    { <<"t", "r", "u", "e">>, <<"T", "r", "u", "e">>, <<"1">>, <<"S">>,
      <<"S", "i", "m">>, <<" ", "s", "i", "m", NBSP>>, <<"t">>, <<"y">>,
      <<"Y", "E", "S">>, <<"n", "o">>, <<"f", "a", "l", "s", "e">>,
      <<"0", "0", "4", "2">>, <<"0", "0", "0">>, <<" ", "0", "0", "4", "2", "\n">>,
      <<"4", SUP2>>, <<"1", NBSP, "2">>, <<"A", NBSP, "B">>,
      <<" ", "3", ",", "5", " ">>, <<"1", ".", "2", "3", "4", ",", "5">>,
      <<"-", "4", ".", "5">>, <<"+", "0", "4", ",", "0", "0", "6">>,
      <<"I", "n", "f", "i", "n", "i", "t", "y">>, <<"-", "i", "n", "f">>,
      <<"N", "a", "N">>,
      <<"A", "B">>, <<"A", "B", "C", "D", "E">>,
      <<"A", "B", "C", "D", "E", "F", "G">>, <<" ", "A", " ", "B", " ", "C", "D", " ">> }

NormTexts == SeqsUpTo(NormChars, MaxText) \cup NormSamples

\* Optional[str]: None or a str
NormArgs == {<<>>} \cup {<<t>> : t \in NormTexts}

NormFunctions ==
    { "normalize_numeric_string", "normalize_serie_nfts",
      "normalize_float_value", "normalize_boolean_value" }

\* the functions as they are called: "if text is None: return ..." first
call_normalize_numeric_string(arg) ==
    IF arg = <<>> THEN <<>> ELSE normalize_numeric_string(arg[1])

call_normalize_serie_nfts(v, arg) ==
    IF arg = <<>> THEN FiveSpaces ELSE normalize_serie_nfts(v, arg[1])

call_normalize_float_value(arg, flag) ==
    IF arg = <<>> THEN <<>> ELSE normalize_float_value(arg[1], flag)

call_normalize_boolean_value(arg) ==
    IF arg = <<>> THEN <<"f", "a", "l", "s", "e">>
    ELSE normalize_boolean_value(arg[1])

\* text.replace('\xa0', ' ').replace(',', '.').strip() of normalize_float_value
clean_float(t) == strip(replace_comma(replace_nbsp(t)))

InitNorm ==
    /\ variant \in {"NC", "CD"}
    /\ mode = "call"
    /\ pc = "call"
    /\ callFn \in NormFunctions
    /\ callArg \in NormArgs
    /\ callFlag \in BOOLEAN
    /\ callFn # "normalize_float_value" => callFlag = TRUE
    \* the numerals whose digits decide how their double is rendered
    /\ (callFn = "normalize_float_value" /\ callArg # <<>>
          /\ float_parses(clean_float(callArg[1])))
         => float_exact(clean_float(callArg[1]))
    /\ callRet = <<>>
    /\ root = <<>>
    /\ input = <<>>
    /\ i = 0
    /\ keyOk = TRUE
    /\ xmlsecAvail = FALSE
    /\ xmlsecFails = FALSE
    /\ writeOk = TRUE
    /\ docSigned = FALSE
    /\ signedBytes = <<>>
    /\ pems = {}
    /\ output = <<>>
    /\ outcome = "running"
    /\ pubkey = "none"
    /\ report = <<>>
    /\ canon = <<>>
    /\ cbytes = <<>>
    /\ reparsed = <<>>
    /\ cbytes2 = <<>>

normFrame == <<variant, mode, root, input, i, keyOk, xmlsecAvail, xmlsecFails,
               writeOk, docSigned, signedBytes, pems, output, outcome, pubkey,
               report, cbytes, reparsed, cbytes2, callFn, callArg, callFlag>>

CallNumericString ==
    /\ mode = "call" /\ pc = "call" /\ callFn = "normalize_numeric_string"
    /\ callRet' = <<call_normalize_numeric_string(callArg)>>
    /\ pc' = "returned"
    /\ UNCHANGED <<normFrame, canon>>

CallSerieNfts ==
    /\ mode = "call" /\ pc = "call" /\ callFn = "normalize_serie_nfts"
    /\ callRet' = <<call_normalize_serie_nfts(variant, callArg)>>
    /\ pc' = "returned"
    /\ UNCHANGED <<normFrame, canon>>

CallFloatValue ==
    /\ mode = "call" /\ pc = "call" /\ callFn = "normalize_float_value"
    /\ callRet' = <<call_normalize_float_value(callArg, callFlag)>>
    /\ pc' = "returned"
    /\ UNCHANGED <<normFrame, canon>>

CallBooleanValue ==
    /\ mode = "call" /\ pc = "call" /\ callFn = "normalize_boolean_value"
    /\ callRet' = <<call_normalize_boolean_value(callArg)>>
    /\ pc' = "returned"
    /\ UNCHANGED <<normFrame, canon>>

\* original_child.text of a field whose text is the argument
field_text(arg) == IF arg = <<>> THEN <<>> ELSE arg[1]

\* the name of a field canonical_order_map gives the kind the function
\* normalizes
field_name(fn, flag) ==
    CASE fn = "normalize_numeric_string" -> "CodigoServico"
      [] fn = "normalize_serie_nfts"     -> "SerieNFTS"
      [] fn = "normalize_boolean_value"  -> "ISSRetidoTomador"
      [] fn = "normalize_float_value"    ->
            IF flag THEN "ValorServicos" ELSE "AliquotaServicos"

\* a record unit with that field alone, SerieNFTS inside ChaveDocumento
field_unit(fn, flag, arg) ==
    LET leaf == Leaf(field_name(fn, flag), field_text(arg)) IN
    IF fn = "normalize_serie_nfts"
    THEN Group("NFTS", << Group("ChaveDocumento", <<leaf>>) >>)
    ELSE Group("NFTS", <<leaf>>)

\* build_tpNFTS_bytes of the unit holding the field
BuildField ==
    /\ mode = "call" /\ pc = "returned"
    /\ canon' = <<canonical_root(variant, field_unit(callFn, callFlag, callArg))>>
    /\ pc' = "built"
    /\ UNCHANGED <<normFrame, callRet>>

NextNorm ==
    \/ CallNumericString \/ CallSerieNfts \/ CallFloatValue \/ CallBooleanValue
    \/ BuildField

SpecNorm == InitNorm /\ [][NextNorm]_vars

\* the text emitted for the field in the canonical tree: <<>> when the
\* field is pruned, else <<text>>
emitted(node, name) ==
    IF node.kids = <<>> THEN <<>>
    ELSE IF node.kids[1].tag = name THEN <<node.kids[1].text>>
    ELSE IF node.kids[1].kids = <<>> THEN <<>>
    ELSE <<node.kids[1].kids[1].text>>

(***************************************************************************)
(* CLAIMS about the normalization functions                                *)
(***************************************************************************)
\* C14: Boolean normalization.  normalize_boolean_value returns "true"
\* exactly when its argument, with non-breaking spaces replaced, trimmed
\* and lowercased, is one of true, 1, s, sim, t, y, yes, and "false" for
\* every other argument, None and the empty string included; and a Boolean
\* field of the record is emitted in the canonical tree with that value,
\* never pruned.
Thm_C14_BooleanTotal ==
    (mode = "call" /\ callFn = "normalize_boolean_value" /\ callRet # <<>>) =>
        LET is_true == /\ callArg # <<>>
                       /\ lower(strip(replace_nbsp(callArg[1])))
                            \in { <<"t", "r", "u", "e">>, <<"1">>, <<"s">>,
                                  <<"s", "i", "m">>, <<"t">>, <<"y">>,
                                  <<"y", "e", "s">> }
        IN  /\ is_true => callRet[1] = <<"t", "r", "u", "e">>
            /\ ~ is_true => callRet[1] = <<"f", "a", "l", "s", "e">>
            /\ pc = "built" => emitted(canon[1], "ISSRetidoTomador") = callRet

\* a Boolean field without text was canonicalized and is emitted as false
Wit_C14_BooleanTotal ==
    /\ mode = "call" /\ callFn = "normalize_boolean_value"
    /\ pc = "built"
    /\ field_text(callArg) = <<>>
    /\ emitted(canon[1], "ISSRetidoTomador") = << <<"f", "a", "l", "s", "e">> >>

\* the text has neither leading nor trailing whitespace
is_trimmed(t) == t = <<>> \/ (t[1] \notin WhiteSpace /\ t[Len(t)] \notin WhiteSpace)

\* the text consists only of decimal digits
only_digits(t) == t # <<>> /\ \A k \in 1..Len(t) : t[k] \in DecDigits

\* r is the numeral d without its leading zeros
is_without_leading_zeros(r, d) ==
    /\ r # <<>>
    /\ Len(r) > 1 => r[1] # "0"
    /\ \E z \in 0..(Len(d) - 1) :
          /\ \A j \in 1..z : d[j] = "0"
          /\ r = SubSeq(d, z + 1, Len(d))

\* what normalize_numeric_string is to return, given the text that passes
\* through when the digits rule does not apply
numeric_as_claimed(passed, ret) ==
    /\ only_digits(passed) => is_without_leading_zeros(ret, passed)
    /\ ~ only_digits(passed) => ret = passed
    /\ is_trimmed(ret)

\* C15 as stated: normalize_numeric_string returns the trimmed input
\* unchanged when it holds a character that is no decimal digit, and the
\* numeral without leading zeros when it holds decimal digits only; the
\* result has no leading or trailing whitespace.
\* Refuted by a non-breaking space inside the text, which comes back as an
\* ordinary space.
Orig_C15_NumericString ==
    (mode = "call" /\ callFn = "normalize_numeric_string" /\ callRet # <<>>) =>
        numeric_as_claimed(IF callArg = <<>> THEN <<>> ELSE strip(callArg[1]),
                           callRet[1])

\* C15, amended: normalize_numeric_string returns the cleaned input (every
\* non-breaking space replaced by a space, then trimmed) unchanged when it
\* holds a character that is no decimal digit, and the numeral without
\* leading zeros when it holds decimal digits only; the result has no
\* leading or trailing whitespace, and the call returns for every input.
Thm_C15_NumericString ==
    (mode = "call" /\ callFn = "normalize_numeric_string") =>
        /\ pc # "call" => callRet # <<>>
        /\ callRet # <<>> =>
              numeric_as_claimed(IF callArg = <<>> THEN <<>>
                                 ELSE strip(replace_nbsp(callArg[1])),
                                 callRet[1])

\* "0042" between whitespace came back as "42"
Wit_C15_NumericString ==
    /\ mode = "call" /\ callFn = "normalize_numeric_string"
    /\ callArg = << <<" ", "0", "0", "4", "2", "\n">> >>
    /\ callRet = << <<"4", "2">> >>

\* C16: FixedWidthSeries normalization.  The value normalize_serie_nfts
\* returns, and the canonical tree emits for SerieNFTS, has exactly 5
\* characters: the cleaned text followed by spaces when it is shorter, its
\* first 5 characters when it is longer.
\* NC refutes it: its normalize_serie_nfts only cleans.
Orig_C16_FixedWidthSeries ==
    (mode = "call" /\ callFn = "normalize_serie_nfts" /\ callRet # <<>>) =>
        LET cleaned == strip(replace_nbsp(field_text(callArg))) IN
        /\ Len(callRet[1]) = 5
        /\ \A k \in 1..5 :
              callRet[1][k] = IF k <= Len(cleaned) THEN cleaned[k] ELSE " "
        /\ pc = "built" => emitted(canon[1], "SerieNFTS") = callRet

\* the text is a numeral with exactly two fractional digits
has_two_fractional_digits(t) ==
    LET u == Unsigned(t) IN
    /\ Len(u) >= 4
    /\ u[Len(u) - 2] = "."
    /\ \A k \in 1..Len(u) : k # Len(u) - 2 => u[k] \in DecDigits

\* C17: CurrencyDecimal normalization.  normalize_float_value with
\* format_decimals=True replaces every comma by a period and cleans; when
\* float() accepts the cleaned text the result has exactly two fractional
\* digits, and when it does not the cleaned text is returned as it is.
\* Refuted by the texts float() accepts as infinity or not-a-number:
\* "Infinity" comes back as "inf".
Orig_C17_CurrencyDecimal ==
    (/\ mode = "call" /\ callFn = "normalize_float_value" /\ callFlag
     /\ callArg # <<>> /\ callRet # <<>>) =>
        LET cleaned == strip(replace_comma(replace_nbsp(callArg[1]))) IN
        IF float_parses(cleaned)
        THEN has_two_fractional_digits(callRet[1])
        ELSE callRet[1] = cleaned

(***************************************************************************)
(* CLAIMS about the effects of build_tpNFTS_bytes and of sign_file         *)
(***************************************************************************)
\* what sign_file makes of a unit that build_tpNFTS_bytes left as it was
signed_from(v, nfts, bytes) ==
    IF v = "NC"
    THEN reassemble_NC(nfts, Leaf("Assinatura",
                                  remove_whitespace(sign_b64(PrivateKey, bytes))))
    ELSE insert_signature_CD(nfts, remove_whitespace(sign_b64(PrivateKey, bytes)))

\* C18: canonicalization leaves its input unchanged.  A unit given to
\* build_tpNFTS_bytes during verification is afterwards the unit of the
\* document verified, its Assinatura and every other child in place; a unit
\* given to it during signing is afterwards changed by the insertion of the
\* signature only.
Thm_C18_InputUnchanged ==
    /\ mode = "verify" => root = (IF output # <<>> THEN output[1] ELSE input)
    /\ mode = "sign" =>
          \A k \in 1..Len(signedBytes) :
              root[k] = signed_from(variant, input[k], signedBytes[k])

\* verification has canonicalized a unit whose signature is not its last
\* child, and the unit still has the signature
Wit_C18_InputUnchanged ==
    /\ mode = "verify"
    /\ Len(report) >= 1
    /\ report[1].result \in {"valid", "invalid"}
    /\ root[1].kids[Len(root[1].kids)].tag # "Assinatura"
    /\ xpath_local_name(root[1], "Assinatura") # <<>>

\* C19: private key material is not left on disk.  However sign_file ends
\* (success, no record unit, failure of the whole-document signature,
\* failure of the write), the temporary PEM files it created exist no more.
\* Both scripts refute it: the files are removed on the successful path
\* only.
Orig_C19_NoKeyLeftOnDisk ==
    (mode = "sign" /\ pc = "done") => pems = {}

====
